---- MODULE Spec2Model ----
(***************************************************************************)
(* Model of main.py: a toy optimizer for one SSA basic block.  Operations  *)
(* live in an arena (ops) and are identified by their index; a Block is a  *)
(* sequence of such indices, so the input Block and the Block returned by  *)
(* simplify share their nodes as the Python lists do.  A Value is          *)
(* <<"Constant", n>> or <<"Operation", i>>; Constants compare by value     *)
(* (Constant.__eq__), Operations by identity.                              *)
(***************************************************************************)
EXTENDS Integers, Sequences, FiniteSets, TLC

VARIABLES ops, forwarded, block, optimized, calls, pc, exc,
          s_block, parity, cse, result, idx

vars == <<ops, forwarded, block, optimized, calls, pc, exc,
          s_block, parity, cse, result, idx>>

\* ---- bounds of the model ----
\* MaxLen: instructions built per block; MaxLit: literal operands 0..MaxLit;
\* NumArgs: getarg indices and the length of interp's argument list;
\* MaxArgVal: interp arguments range over -MaxArgVal..MaxArgVal;
\* MaxCalls: simplify calls per behaviour.
MaxLen == 3
MaxLit == 1
NumArgs == 2
MaxArgVal == 2
MaxCalls == 2

\* ---- values ----
None == <<"None", 0>>
Constant(value) == <<"Constant", value>>
Operation(i) == <<"Operation", i>>
Raw(n) == <<"raw", n>>
Diverges == <<"diverges", 0>>

IsConstant(v) == v[1] = "Constant"
IsOperation(v) == v[1] = "Operation"

TOP == "top"
EVEN == "even"
ODD == "odd"
BOTTOM == "bottom"

\* Operation.find / Constant.find: follow the forwarding chain.  A chain
\* longer than the arena is a cycle, on which the while loop never ends.
RECURSIVE FindFrom(_, _, _)
FindFrom(fwd, v, fuel) ==
    IF ~IsOperation(v) THEN v
    ELSE IF fwd[v[2]] = None THEN v
    ELSE IF fuel = 0 THEN Diverges
    ELSE FindFrom(fwd, fwd[v[2]], fuel - 1)

find(fwd, v) == FindFrom(fwd, v, Len(fwd))

\* Bug variant of args: the raw constructor-time arguments, not resolved.
args_raw(fwd, n) == ops[n]._args

\* Operation.args: the find()-resolved arguments of node n.
args(fwd, n) == [k \in DOMAIN ops[n]._args |-> find(fwd, ops[n]._args[k])]

\* Bug variant of make_equal_to: the union runs in the wrong direction, from
\* the representative of the value to the instruction.
make_equal_to_reversed(fwd, n, value) ==
    LET rep == find(fwd, value) IN
    IF rep = Diverges THEN [status |-> "hang", fwd |-> fwd]
    ELSE IF IsOperation(rep)
         THEN [status |-> "ok", fwd |-> [fwd EXCEPT ![rep[2]] = Operation(n)]]
    ELSE [status |-> "ok", fwd |-> [fwd EXCEPT ![n] = value]]

\* Bug variant of make_equal_to: the forwarding pointer is never stored.
make_equal_to_noop(fwd, n, value) == [status |-> "ok", fwd |-> fwd]

\* Operation.make_equal_to with Operation._set_forwarded and
\* Constant._set_forwarded: the new forwarding map, or the failure.
make_equal_to(fwd, n, value) ==
    LET rep == find(fwd, Operation(n)) IN
    IF rep = Diverges THEN [status |-> "hang", fwd |-> fwd]
    ELSE IF IsOperation(rep)
         THEN [status |-> "ok", fwd |-> [fwd EXCEPT ![rep[2]] = value]]
    ELSE IF IsConstant(value) /\ value[2] = rep[2]
         THEN [status |-> "ok", fwd |-> fwd]
    ELSE [status |-> "AssertionError", fwd |-> fwd]

\* ---- Block builders ----
wraparg(arg) == IF arg[1] = "raw" THEN Constant(arg[2]) ELSE arg

Literals == {Raw(n) : n \in 0..MaxLit}
Operands == Literals \cup {Operation(i) : i \in 1..Len(ops)}
UnaryNames == {"dummy"}
BinaryNames == {"add", "mul", "lshift", "bitand"}

\* opbuilder(opname).build
build(opname, bargs) ==
    /\ pc = "build"
    /\ Len(block) < MaxLen
    /\ ops' = Append(ops, [name |-> opname,
                           _args |-> [k \in DOMAIN bargs |-> wraparg(bargs[k])]])
    /\ forwarded' = Append(forwarded, None)
    /\ block' = Append(block, Len(ops) + 1)
    /\ UNCHANGED <<optimized, calls, pc, exc, s_block, parity, cse, result, idx>>

Build ==
    \/ \E n \in 0..(NumArgs - 1) : build("getarg", <<Raw(n)>>)
    \/ \E nm \in UnaryNames, a \in Operands : build(nm, <<a>>)
    \/ \E nm \in BinaryNames, a \in Operands, b \in Operands : build(nm, <<a, b>>)

\* The block the module builds at import time.
ModuleOps ==
    << [name |-> "getarg", _args |-> <<Constant(0)>>],
       [name |-> "getarg", _args |-> <<Constant(1)>>],
       [name |-> "lshift", _args |-> <<Operation(1), Constant(1)>>],
       [name |-> "lshift", _args |-> <<Operation(2), Constant(1)>>],
       [name |-> "add",    _args |-> <<Operation(3), Operation(4)>>],
       [name |-> "bitand", _args |-> <<Operation(5), Constant(1)>>],
       [name |-> "dummy",  _args |-> <<Operation(6)>>] >>

ModuleBlock ==
    /\ pc = "build"
    /\ ops = <<>>
    /\ ops' = ModuleOps
    /\ forwarded' = [k \in 1..7 |-> None]
    /\ block' = [k \in 1..7 |-> k]
    /\ UNCHANGED <<optimized, calls, pc, exc, s_block, parity, cse, result, idx>>

\* ---- Parity ----
Parity_const(value) == IF value[2] % 2 = 0 THEN EVEN ELSE ODD

\* Bug variant of Parity.add: the EVEN and ODD results exchanged.
Parity_add_swapped(self, other) ==
    IF self = BOTTOM \/ other = BOTTOM THEN BOTTOM
    ELSE IF self = TOP \/ other = TOP THEN TOP
    ELSE IF self = EVEN /\ other = EVEN THEN ODD
    ELSE IF self = ODD /\ other = ODD THEN ODD
    ELSE EVEN

Parity_add(self, other) ==
    IF self = BOTTOM \/ other = BOTTOM THEN BOTTOM
    ELSE IF self = TOP \/ other = TOP THEN TOP
    ELSE IF self = EVEN /\ other = EVEN THEN EVEN
    ELSE IF self = ODD /\ other = ODD THEN EVEN
    ELSE ODD

\* Bug variant of Parity.lshift: tests the shifted value, not the amount.
Parity_lshift_self(self, other) ==
    IF self = BOTTOM \/ other = BOTTOM THEN BOTTOM
    ELSE IF self = ODD THEN EVEN
    ELSE TOP

\* Bug variant of Parity.lshift: any known shift amount counts as clearing
\* bit 0, also an even one such as 0.
Parity_lshift_any(self, other) ==
    IF self = BOTTOM \/ other = BOTTOM THEN BOTTOM
    ELSE IF other = ODD \/ other = EVEN THEN EVEN
    ELSE TOP

Parity_lshift(self, other) ==
    IF self = BOTTOM \/ other = BOTTOM THEN BOTTOM
    ELSE IF other = ODD THEN EVEN
    ELSE TOP

\* The names getattr(Parity, op.name) finds a transfer function for.
HasTransfer(opname) == opname \in {"getarg", "dummy", "add", "lshift"}

transfer(opname, ps) ==
    CASE opname = "getarg" -> TOP
      [] opname = "dummy" -> TOP
      [] opname = "add" -> Parity_add(ps[1], ps[2])
      [] opname = "lshift" -> Parity_lshift(ps[1], ps[2])

\* ---- simplify ----
\* parity_of: a Constant's parity from its literal, else the stored fact;
\* "KeyError" when the Operation is not a key of the parity dict.
parity_of(par, value) ==
    IF IsConstant(value) THEN Parity_const(value)
    ELSE IF value[2] \in DOMAIN par THEN par[value[2]]
    ELSE "KeyError"

\* Bug variant of the CSE lookup: it never finds an earlier instruction.
cse_get_miss(c, name_args) == None

\* cse.get(name_args): the node registered under the key, or None.
cse_get(c, name_args) ==
    IF \E e \in c : e[1] = name_args
    THEN Operation((CHOOSE e \in c : e[1] = name_args)[2])
    ELSE None

\* case Operation("bitand", [arg, Constant(1)]) | Operation("bitand", [Constant(1), arg])
MatchBitand(opname, a) ==
    /\ opname = "bitand"
    /\ Len(a) = 2
    /\ (a[2] = Constant(1) \/ a[1] = Constant(1))

BitandArg(a) == IF a[2] = Constant(1) THEN a[1] ELSE a[2]

\* case Operation("add", [Constant(l), Constant(r)])
MatchAddConst(opname, a) ==
    /\ opname = "add"
    /\ Len(a) = 2
    /\ IsConstant(a[1])
    /\ IsConstant(a[2])

\* Bug variant of the rewrite: the Constants of EVEN and ODD exchanged.
Rewrite_swapped(opname, a, par) ==
    IF MatchBitand(opname, a)
    THEN LET p == parity_of(par, BitandArg(a)) IN
         IF p = "KeyError" THEN <<"KeyError", 0>>
         ELSE IF p = EVEN THEN Constant(1)
         ELSE IF p = ODD THEN Constant(0)
         ELSE None
    ELSE IF MatchAddConst(opname, a)
    THEN Constant(a[1][2] + a[2][2])
    ELSE None

\* Bug variant of the rewrite: the add of two Constants folds to the left one.
Rewrite_left(opname, a, par) ==
    IF MatchBitand(opname, a)
    THEN LET p == parity_of(par, BitandArg(a)) IN
         IF p = "KeyError" THEN <<"KeyError", 0>>
         ELSE IF p = EVEN THEN Constant(0)
         ELSE IF p = ODD THEN Constant(1)
         ELSE None
    ELSE IF MatchAddConst(opname, a)
    THEN Constant(a[1][2])
    ELSE None

\* The rewrite the match statement chooses for the instruction: the
\* Constant it is forwarded to, None to fall through to emission, or
\* KeyError from parity_of.
Rewrite(opname, a, par) ==
    IF MatchBitand(opname, a)
    THEN LET p == parity_of(par, BitandArg(a)) IN
         IF p = "KeyError" THEN <<"KeyError", 0>>
         ELSE IF p = EVEN THEN Constant(0)
         ELSE IF p = ODD THEN Constant(1)
         ELSE None
    ELSE IF MatchAddConst(opname, a)
    THEN Constant(a[1][2] + a[2][2])
    ELSE None

\* simplify(block): the body up to the loop.
SimplifyCall(which) ==
    /\ Len(calls) < MaxCalls
    /\ \/ pc = "build" /\ which = "block"
       \/ pc = "returned"
    /\ calls' = Append(calls, which)
    /\ s_block' = IF which = "block" THEN block ELSE optimized
    /\ parity' = [v \in {s_block'[k] : k \in DOMAIN s_block'} |-> BOTTOM]
    /\ cse' = {}
    /\ result' = <<>>
    /\ idx' = 1
    /\ pc' = "simplify"
    /\ UNCHANGED <<ops, forwarded, block, optimized, exc>>

Raise(e) == pc' = "raised" /\ exc' = e

\* One iteration of the loop over the block.
SimplifyStep ==
    /\ pc = "simplify"
    /\ idx <= Len(s_block)
    /\ LET op == s_block[idx]
           a == args(forwarded, op)
           name_args == <<ops[op].name, a>>
           prev == cse_get(cse, name_args)
           rw == Rewrite(ops[op].name, a, parity)
           target == IF prev # None THEN prev ELSE rw
           meq == make_equal_to(forwarded, op, target)
           ps == [k \in DOMAIN a |-> parity_of(parity, a[k])]
       IN
       IF \E k \in DOMAIN a : a[k] = Diverges
       THEN /\ pc' = "hang"
            /\ UNCHANGED <<exc, forwarded, parity, cse, result, idx>>
       ELSE IF prev = None /\ rw[1] = "KeyError"
       THEN /\ Raise("KeyError")
            /\ UNCHANGED <<forwarded, parity, cse, result, idx>>
       ELSE IF target # None
       THEN \* CSE hit or rewrite: make_equal_to, continue
            IF meq.status = "ok"
            THEN /\ forwarded' = meq.fwd
                 /\ idx' = idx + 1
                 /\ UNCHANGED <<pc, exc, parity, cse, result>>
            ELSE IF meq.status = "hang"
            THEN /\ pc' = "hang"
                 /\ UNCHANGED <<exc, forwarded, parity, cse, result, idx>>
            ELSE /\ Raise(meq.status)
                 /\ UNCHANGED <<forwarded, parity, cse, result, idx>>
       ELSE \* Emit, then analyze
            /\ result' = Append(result, op)
            /\ cse' = {e \in cse : e[1] # name_args} \cup {<<name_args, op>>}
            /\ IF ~HasTransfer(ops[op].name)
               THEN /\ Raise("AttributeError")
                    /\ UNCHANGED <<forwarded, parity, idx>>
               ELSE IF \E k \in DOMAIN ps : ps[k] = "KeyError"
               THEN /\ Raise("KeyError")
                    /\ UNCHANGED <<forwarded, parity, idx>>
               ELSE /\ parity' = [v \in DOMAIN parity \cup {op} |->
                                    IF v = op THEN transfer(ops[op].name, ps)
                                    ELSE parity[v]]
                    /\ idx' = idx + 1
                    /\ UNCHANGED <<pc, exc, forwarded>>
    /\ UNCHANGED <<ops, block, optimized, calls, s_block>>

\* Bug variant of the return: the raw argument lists of the block's
\* instructions are overwritten with their representatives.
SimplifyReturn_inplace ==
    /\ pc = "simplify"
    /\ idx > Len(s_block)
    /\ optimized' = result
    /\ pc' = "returned"
    /\ ops' = [n \in DOMAIN ops |-> [ops[n] EXCEPT !._args = args(forwarded, n)]]
    /\ UNCHANGED <<forwarded, block, calls, exc, s_block, parity, cse, result, idx>>

\* return result
SimplifyReturn ==
    /\ pc = "simplify"
    /\ idx > Len(s_block)
    /\ optimized' = result
    /\ pc' = "returned"
    /\ UNCHANGED <<ops, forwarded, block, calls, exc, s_block, parity, cse, result, idx>>

\* ---- interp ----
\* Python's a & b on unbounded two's-complement integers.
RECURSIVE BitAnd(_, _)
BitAnd(a, b) ==
    IF a = 0 \/ b = 0 THEN 0
    ELSE IF a = -1 THEN b
    ELSE IF b = -1 THEN a
    ELSE (a % 2) * (b % 2) + 2 * BitAnd(a \div 2, b \div 2)

RECURSIVE Pow2(_)
Pow2(n) == IF n = 0 THEN 1 ELSE 2 * Pow2(n - 1)

\* value_of: a Constant's value, else the value computed for the Operation;
\* <<FALSE, 0>> stands for the KeyError of values[value].
value_of(values, value) ==
    IF IsConstant(value) THEN <<TRUE, value[2]>>
    ELSE IF value[2] \in DOMAIN values THEN <<TRUE, values[value[2]]>>
    ELSE <<FALSE, 0>>

\* The match statement of interp for one op: <<"set", v>> when a case
\* assigns values[op], <<"skip", 0>> when no case matches, <<"raise", 0>>
\* when the matching case raises (IndexError, KeyError, ValueError).
InterpOp(opname, a, values, iargs) ==
    LET x == value_of(values, a[1])
        y == value_of(values, a[2])
    IN
    IF opname = "getarg" /\ Len(a) = 1 /\ IsConstant(a[1])
    THEN IF a[1][2] \in 0..(Len(iargs) - 1)
         THEN <<"set", iargs[a[1][2] + 1]>> ELSE <<"raise", 0>>
    ELSE IF opname \in {"add", "lshift", "bitand"} /\ Len(a) = 2
    THEN IF ~x[1] \/ ~y[1] THEN <<"raise", 0>>
         ELSE IF opname = "add" THEN <<"set", x[2] + y[2]>>
         ELSE IF opname = "bitand" THEN <<"set", BitAnd(x[2], y[2])>>
         ELSE IF y[2] < 0 THEN <<"raise", 0>>
         ELSE <<"set", x[2] * Pow2(y[2])>>
    ELSE IF opname = "dummy" /\ Len(a) = 1
    THEN IF x[1] THEN <<"set", x[2]>> ELSE <<"raise", 0>>
    ELSE <<"skip", 0>>

RECURSIVE InterpLoop(_, _, _, _, _)
InterpLoop(blk, fwd, iargs, k, values) ==
    IF k > Len(blk)
    THEN IF blk # <<>> /\ blk[Len(blk)] \in DOMAIN values
         THEN [ok |-> TRUE, value |-> values[blk[Len(blk)]]]
         ELSE [ok |-> FALSE, value |-> 0]
    ELSE LET a == args(fwd, blk[k])
             r == InterpOp(ops[blk[k]].name, a, values, iargs)
         IN
         IF \E j \in DOMAIN a : a[j] = Diverges THEN [ok |-> FALSE, value |-> 0]
         ELSE IF r[1] = "raise" THEN [ok |-> FALSE, value |-> 0]
         ELSE IF r[1] = "skip" THEN InterpLoop(blk, fwd, iargs, k + 1, values)
         ELSE InterpLoop(blk, fwd, iargs, k + 1,
                         [v \in DOMAIN values \cup {blk[k]} |->
                            IF v = blk[k] THEN r[2] ELSE values[v]])

\* interp(block, args): the returned value, or ok = FALSE when it raises.
interp(blk, fwd, iargs) == InterpLoop(blk, fwd, iargs, 1, <<>>)

ArgVals == (0 - MaxArgVal)..MaxArgVal
ArgLists == [1..NumArgs -> ArgVals]

\* The forwarding pointers of a freshly built block: all unset.
Fresh == [k \in DOMAIN forwarded |-> None]

\* ---- properties ----
Range(f) == {f[k] : k \in DOMAIN f}

\* The first simplify call, on the freshly built Block.
FirstCall == calls = <<"block">>
Returned1 == FirstCall /\ pc = "returned"

\* Every call after the first is applied to the Block the previous one
\* returned: simplify(simplify(b)).
Chained == /\ calls # <<>>
           /\ calls[1] = "block"
           /\ \A k \in 2..Len(calls) : calls[k] = "optimized"

\* The CSE key of node n under the current forwarding.
KeyOf(n) == <<ops[n].name, args(forwarded, n)>>

\* C1: for every built block and every argument list on which the original
\* block evaluates, interp of the original block and interp of the block
\* simplify returns give the same final value.
C1_SemanticEquivalence ==
    Returned1 =>
        \A ia \in ArgLists :
            interp(block, Fresh, ia).ok =>
                interp(optimized, forwarded, ia) = interp(block, Fresh, ia)

\* C2: simplify never raises on a freshly built SSA-valid block, and an
\* emitted operation without a parity transfer function (mul, bitand) has
\* the fact TOP.
C2_Total ==
    FirstCall =>
        /\ pc # "raised"
        /\ \A n \in Range(result) :
              (ops[n].name \in {"mul", "bitand"} /\ pc = "returned") => parity[n] = TOP

\* C4: after simplify on a fresh block, two instructions with the same key
\* (name, resolved arguments) have the same representative.
C4_CseSound ==
    Returned1 =>
        \A m \in Range(block), n \in Range(block) :
            KeyOf(m) = KeyOf(n) =>
                find(forwarded, Operation(m)) = find(forwarded, Operation(n))

\* Two instructions with different raw arguments whose keys became equal
\* through forwarding, the later one forwarded to the earlier by CSE.
C4_Witness ==
    /\ Returned1
    /\ \E m \in Range(block), n \in Range(block) :
          /\ m < n
          /\ ops[m]._args # ops[n]._args
          /\ KeyOf(m) = KeyOf(n)
          /\ forwarded[n] = Operation(m)
          /\ m \in Range(optimized)

\* C5: the pass does not fail at a bitand with mask 1 whose other argument
\* has a parity fact that is neither EVEN nor ODD; for v0 = getarg(0);
\* v1 = bitand(v0, 1) it returns both instructions, v1 unforwarded.
PassthroughOps ==
    << [name |-> "getarg", _args |-> <<Constant(0)>>],
       [name |-> "bitand", _args |-> <<Operation(1), Constant(1)>>] >>

C5_UnknownParityPassthrough ==
    /\ (FirstCall /\ pc = "raised") =>
          LET a == args(forwarded, s_block[idx]) IN
          ~(/\ MatchBitand(ops[s_block[idx]].name, a)
            /\ parity_of(parity, BitandArg(a)) \notin {EVEN, ODD})
    /\ (FirstCall /\ ops = PassthroughOps /\ pc = "returned") =>
          (optimized = <<1, 2>> /\ forwarded[2] = None)

\* C6 as stated: the module's block is reduced to the two getarg
\* instructions and v6 resolves to Constant(0).
C6_TwoInstructions ==
    (Returned1 /\ ops = ModuleOps) =>
        /\ optimized = <<1, 2>>
        /\ find(forwarded, Operation(7)) = Constant(0)

\* C6 amended: on the module's block simplify completes and returns the six
\* instructions v0..v4 and v6; only v5 is forwarded, to Constant(0); v6 is
\* its own representative and its argument resolves to Constant(0).
C6_SixInstructions ==
    (FirstCall /\ ops = ModuleOps) =>
        /\ pc # "raised"
        /\ pc = "returned" =>
              /\ optimized = <<1, 2, 3, 4, 5, 7>>
              /\ forwarded = [k \in 1..7 |-> IF k = 6 THEN Constant(0) ELSE None]
              /\ find(forwarded, Operation(7)) = Operation(7)
              /\ args(forwarded, 7) = <<Constant(0)>>

C6_Witness == Returned1 /\ ops = ModuleOps /\ Len(optimized) = 6

\* C9: on the module's block, interp of the input block (before and after
\* the pass) and interp of the returned block give 0 for all arguments.
C9_ExampleInterpZero ==
    (ops = ModuleOps /\ (pc = "build" \/ Returned1)) =>
        \A ia \in ArgLists :
            /\ interp(block, Fresh, ia) = [ok |-> TRUE, value |-> 0]
            /\ interp(block, forwarded, ia) = [ok |-> TRUE, value |-> 0]
            /\ Returned1 =>
                  interp(optimized, forwarded, ia) = [ok |-> TRUE, value |-> 0]

C9_Witness ==
    /\ Returned1
    /\ ops = ModuleOps
    /\ \E ia \in ArgLists :
          /\ ia[1] < 0
          /\ ia[2] > 0
          /\ interp(optimized, forwarded, ia).ok

\* C10: every resolved argument of an instruction of the returned block is
\* a Constant or an Operation strictly earlier in the returned block.
C10_ResultIsSSA ==
    Returned1 =>
        \A k \in DOMAIN optimized :
            LET a == args(forwarded, optimized[k]) IN
            \A j \in DOMAIN a :
                \/ IsConstant(a[j])
                \/ /\ IsOperation(a[j])
                   /\ \E e \in 1..(k - 1) : optimized[e] = a[j][2]

\* A returned instruction whose raw argument was removed from the block
\* and resolves to an earlier returned instruction.
C10_Witness ==
    /\ Returned1
    /\ \E k \in DOMAIN optimized :
          \E j \in DOMAIN ops[optimized[k]]._args :
              LET raw == ops[optimized[k]]._args[j] IN
              /\ IsOperation(raw)
              /\ raw[2] \notin Range(optimized)
              /\ IsOperation(find(forwarded, raw))

\* C3: in a simplify call applied to the Block the previous call returned,
\* no forwarding pointer is written, the call does not fail, and it returns
\* the same sequence of Operations (whose resolved arguments are then the
\* same as well).
C3_Idempotent ==
    [][(pc = "simplify" /\ Chained /\ Len(calls) >= 2) =>
          /\ forwarded' = forwarded
          /\ pc' \in {"simplify", "returned"}
          /\ pc' = "returned" => optimized' = optimized]_vars

\* A second pass has returned a block in which some instruction reads an
\* argument through a forwarding pointer the first pass installed.
C3_Witness ==
    /\ calls = <<"block", "optimized">>
    /\ pc = "returned"
    /\ \E n \in Range(optimized) : args(forwarded, n) # ops[n]._args

\* C7: in the first pass, an instruction bitand(x, 1) or bitand(1, x) with
\* no CSE match and parity fact EVEN (ODD) for the resolved x is forwarded
\* to Constant(0) (Constant(1)) and not emitted; and for v0 = getarg(0);
\* v1 = lshift(v0, 1); v2 = bitand(v1, 1) the result is [v0, v1] with v2
\* resolving to Constant(0).
MaskingOps ==
    << [name |-> "getarg", _args |-> <<Constant(0)>>],
       [name |-> "lshift", _args |-> <<Operation(1), Constant(1)>>],
       [name |-> "bitand", _args |-> <<Operation(2), Constant(1)>>] >>

C7_Step ==
    (/\ pc = "simplify"
     /\ FirstCall
     /\ idx <= Len(s_block)
     /\ MatchBitand(ops[s_block[idx]].name, args(forwarded, s_block[idx]))
     /\ cse_get(cse, KeyOf(s_block[idx])) = None
     /\ parity_of(parity, BitandArg(args(forwarded, s_block[idx]))) \in {EVEN, ODD})
    =>
    (/\ pc' = "simplify"
     /\ result' = result
     /\ forwarded' = [forwarded EXCEPT ![s_block[idx]] =
            IF parity_of(parity, BitandArg(args(forwarded, s_block[idx]))) = EVEN
            THEN Constant(0) ELSE Constant(1)])

C7_Example ==
    (FirstCall /\ ops = MaskingOps) =>
        /\ pc # "raised"
        /\ pc = "returned" =>
              (optimized = <<1, 2>> /\ find(forwarded, Operation(3)) = Constant(0))

\* C7: parity-driven masking, every first-pass step and the example block.
C7_ParityMasking == [][C7_Step]_vars /\ []C7_Example

C7_Witness ==
    /\ Returned1
    /\ ops = MaskingOps
    /\ optimized = <<1, 2>>
    /\ forwarded[3] = Constant(0)

\* C8: in the first pass, an add whose two resolved arguments are Constants
\* l and r is forwarded to Constant(l + r) and not emitted; after the pass
\* no such add is in the returned block.
C8_Step ==
    (/\ pc = "simplify"
     /\ FirstCall
     /\ idx <= Len(s_block)
     /\ MatchAddConst(ops[s_block[idx]].name, args(forwarded, s_block[idx])))
    =>
    (/\ pc' = "simplify"
     /\ result' = result
     /\ forwarded' = [forwarded EXCEPT ![s_block[idx]] =
            Constant(args(forwarded, s_block[idx])[1][2]
                     + args(forwarded, s_block[idx])[2][2])])

C8_After ==
    Returned1 =>
        \A n \in Range(block) :
            LET a == args(forwarded, n) IN
            MatchAddConst(ops[n].name, a) =>
                /\ n \notin Range(optimized)
                /\ forwarded[n] = Constant(a[1][2] + a[2][2])

\* C8: constant folding of add, every first-pass step and the returned block.
C8_ConstantFolding == [][C8_Step]_vars /\ []C8_After

\* An add with an Operation argument that an earlier rewrite turned into a
\* Constant has been folded.
C8_Witness ==
    /\ Returned1
    /\ \E n \in Range(block) :
          /\ ops[n].name = "add"
          /\ \E j \in 1..2 : IsOperation(ops[n]._args[j])
          /\ MatchAddConst("add", args(forwarded, n))
          /\ IsConstant(forwarded[n])
          /\ n \notin Range(optimized)

C12_WriteOnce ==
    [][FirstCall =>
          \A n \in DOMAIN forwarded :
              forwarded'[n] # forwarded[n] =>
                  /\ forwarded[n] = None
                  /\ idx <= Len(s_block)
                  /\ n = s_block[idx]
                  /\ n \notin Range(result)
                  /\ n \notin Range(result')]_vars

\* The first pass has returned with a forwarded instruction after an
\* emitted one.
C12_Witness ==
    /\ Returned1
    /\ \E m \in Range(optimized), n \in Range(block) :
          m < n /\ forwarded[n] # None /\ forwarded[m] = None

\* The value interp computes for instruction n of the freshly built block
\* (the final value of the block cut after n).
ValueAt(n, ia) == interp(SubSeq(block, 1, n), Fresh, ia)

\* C13: in the first pass the parity fact stored for an emitted operation
\* over-approximates its value: for every argument list on which interp
\* evaluates the instruction, EVEN implies an even value and ODD an odd one.
C13_ParitySound ==
    FirstCall =>
        \A n \in Range(result) :
            \A ia \in ArgLists :
                ValueAt(n, ia).ok =>
                    /\ parity[n] = EVEN => ValueAt(n, ia).value % 2 = 0
                    /\ parity[n] = ODD => ValueAt(n, ia).value % 2 = 1

\* An emitted add has the fact ODD, computed from an argument-dependent
\* EVEN operand, and takes different odd values, a negative one among them.
C13_Witness ==
    /\ Returned1
    /\ \E n \in Range(optimized) :
          /\ ops[n].name = "add"
          /\ parity[n] = ODD
          /\ \E ia \in ArgLists, ib \in ArgLists :
                /\ ValueAt(n, ia).ok
                /\ ValueAt(n, ib).ok
                /\ ValueAt(n, ia).value < 0
                /\ ValueAt(n, ia).value # ValueAt(n, ib).value

\* C14: in the first pass every resolved Operation argument of the
\* instruction the loop is about to visit has a stored fact other than
\* BOTTOM, and every operation the pass has analyzed has one too.
C14_NoBottomRead ==
    FirstCall =>
        /\ (pc = "simplify" /\ idx <= Len(s_block)) =>
              \A k \in DOMAIN ops[s_block[idx]]._args :
                  LET a == args(forwarded, s_block[idx])[k] IN
                  IsOperation(a) =>
                      /\ a[2] \in DOMAIN parity
                      /\ parity[a[2]] # BOTTOM
        /\ \A k \in DOMAIN result :
              (pc # "raised" \/ k < Len(result)) => parity[result[k]] # BOTTOM

\* The loop is about to visit an instruction whose raw argument was
\* forwarded to an earlier, analyzed Operation.
C14_Witness ==
    /\ FirstCall
    /\ pc = "simplify"
    /\ idx <= Len(s_block)
    /\ \E k \in DOMAIN ops[s_block[idx]]._args :
          LET raw == ops[s_block[idx]]._args[k] IN
          /\ IsOperation(raw)
          /\ IsOperation(forwarded[raw[2]])
          /\ parity[raw[2]] = BOTTOM
          /\ parity[forwarded[raw[2]][2]] # BOTTOM

\* C15: simplify never changes an Operation's name or raw argument list,
\* and the arguments it works with are representatives: every argument in a
\* CSE key registered by the current call was, when registered, a Constant
\* or an unforwarded Operation.
C15_Frame == pc # "build" => ops' = ops

C15_KeysResolved ==
    FirstCall =>
        \A e \in cse : \A k \in DOMAIN e[1][2] :
            \/ IsConstant(e[1][2][k])
            \/ IsOperation(e[1][2][k]) /\ forwarded[e[1][2][k][2]] = None

\* C15: the frame of simplify and the resolved CSE keys together.
C15_ArgsNeverMutated == [][C15_Frame]_vars /\ []C15_KeysResolved

\* The first pass has returned, an instruction whose raw argument is a
\* forwarded Operation was emitted, and its raw argument list is unchanged.
C15_Witness ==
    /\ Returned1
    /\ \E n \in Range(optimized) : \E k \in DOMAIN ops[n]._args :
          /\ IsOperation(ops[n]._args[k])
          /\ forwarded[ops[n]._args[k][2]] # None
          /\ \E e \in cse : e[2] = n /\ e[1][2] # ops[n]._args

\* C16: a second simplify call on the same input Block keeps the forwarding
\* pointers acyclic: no Operation is forwarded to itself, find terminates
\* on every node, the call does not hang and no assertion fails.
C16_SecondPassAcyclic ==
    calls = <<"block", "block">> =>
        /\ pc # "hang"
        /\ exc # "AssertionError"
        /\ \A n \in DOMAIN forwarded :
              /\ forwarded[n] # Operation(n)
              /\ find(forwarded, Operation(n)) # Diverges

\* The position of node n in the freshly built block.
PosInBlock(n) == CHOOSE k \in DOMAIN block : block[k] = n

\* C17: after the first pass the returned block is an order-preserving
\* subsequence of the input without duplicates or new Operations, and an
\* input instruction is in it exactly when its forwarding pointer is unset.
C17_ResultSubsequence ==
    Returned1 =>
        /\ Range(optimized) \subseteq Range(block)
        /\ \A j \in DOMAIN optimized, k \in DOMAIN optimized :
              j < k => PosInBlock(optimized[j]) < PosInBlock(optimized[k])
        /\ \A n \in Range(block) :
              n \in Range(optimized) <=> forwarded[n] = None

\* The returned block skips an instruction in the middle of the input: one
\* forwarded by CSE, or rewritten to a Constant, between two emitted ones.
C17_Witness ==
    /\ Returned1
    /\ optimized = <<1, 3>>
    /\ forwarded[2] # None

Init ==
    /\ ops = <<>>
    /\ forwarded = <<>>
    /\ block = <<>>
    /\ optimized = <<>>
    /\ calls = <<>>
    /\ pc = "build"
    /\ exc = "none"
    /\ s_block = <<>>
    /\ parity = <<>>
    /\ cse = {}
    /\ result = <<>>
    /\ idx = 1

Next ==
    \/ Build
    \/ ModuleBlock
    \/ \E which \in {"block", "optimized"} : SimplifyCall(which)
    \/ SimplifyStep
    \/ SimplifyReturn

Spec == Init /\ [][Next]_vars

====
